---- MODULE Spec2Model ----
(***************************************************************************)
(* A model of src/mlpack/core/math/random.hpp: the process-wide random     *)
(* engine randGen, the seeding functions, the integer draw RandInt and     *)
(* the distinct-subset sampler ObtainDistinctSamples.                      *)
(*                                                                         *)
(* The engine (std::mt19937 behind std::uniform_real_distribution) is a    *)
(* fixed but unknown deterministic function of the seed and of the number  *)
(* of draws made since seeding.  The variable stream holds the part of     *)
(* that function the run has looked at so far: a draw at a position seen   *)
(* before returns the recorded value, a draw at a new position may return  *)
(* any value of [0, 1) and records it.  A value of [0, 1) is a numerator   *)
(* u over the denominator UnitDen.                                         *)
(*                                                                         *)
(* size_t and int keep a width: size_t is SizeBits wide, int and uint32_t  *)
(* are IntBits wide.  The widths are scaled down from 64 and 32 so that    *)
(* range sizes beyond the largest int are within reach of TLC.             *)
(***************************************************************************)
EXTENDS Integers, Sequences, FiniteSets, TLC

(* ---------------------------------------------------------------- bounds *)

\* Width of int and uint32_t in the model (32 in the program).
IntBits == 4
\* The largest hiExclusive of a call under Spec and SpecSeed.
MaxHi == 3
\* Draws made from one seed's stream are followed up to this position.
MaxPos == 2
\* Resolution of the uniform distribution: values are u / UnitDen, u < UnitDen.
UnitDen == 3

\* std::mt19937::default_seed, the seed of a default-constructed engine.
DefaultSeed == 5489

(* ----------------------------------------------------------- arithmetic *)

\* Width of size_t in the model (64 in the program): wider than int.
SizeBits == IntBits + 2

IntMod == 2 ^ IntBits
IntMax == 2 ^ (IntBits - 1) - 1
SizeMod == 2 ^ SizeBits

\* (size_t) of an integer, and unsigned arithmetic: reduction modulo 2^SizeBits.
ToSizeT(i) == i % SizeMod

\* A size_t argument passed to an int parameter: narrowed modulo 2^IntBits to
\* the two's complement value.
ToInt(x) == LET m == x % IntMod IN IF m > IntMax THEN m - IntMod ELSE m

\* (uint32_t) seed.
ToUint32(seed) == seed % IntMod

\* The values randUniformDist(randGen) can return, as numerators over UnitDen.
Units == 0 .. (UnitDen - 1)

(* ---------------------------------------------------------------- state *)

VARIABLES
  bindingType,      \* the build: how the preprocessor sees BINDING_TYPE
  randGen,          \* the shared engine: the seed it was last given and the draws since
  stream,           \* per seed, the values the engine is known to return, in order
  distinctSamples,  \* the caller's output vector (it outlives the calls)
  last,             \* the most recent operation, its arguments and what it drew
  ref,              \* one earlier seeded run of the sampler, kept for comparison
  pc                \* "running", or "crashed" after an out-of-bounds write

vars == <<bindingType, randGen, stream, distinctSamples, last, ref, pc>>

\* BINDING_TYPE is not defined, is BINDING_TYPE_TEST, or is another binding.
BindingTypes == {"undefined", "test", "other"}

\* The seeds the callers pass: the default seed, and a seed that does not fit
\* uint32_t and is cut to the default seed.
Seeds == {DefaultSeed, DefaultSeed + IntMod}

\* The seeds the engine can hold.
EngineSeeds == {ToUint32(s) : s \in Seeds}

\* The largest maxNumSamples of a call: enough for the dense branch on every range.
MaxSamples == MaxHi

\* What a caller's vector may hold before the first call.
InitialVectors == {<< >>, <<MaxHi + 2, MaxHi + 2>>}

\* No seed: below every seed a caller can pass.
NoSeed == 0 - 1
NoRun == [seed |-> NoSeed, lo |-> 0, hi |-> 0, max |-> 0, out |-> << >>,
          again |-> FALSE]
NoOp == [op |-> "none", seed |-> NoSeed, lo |-> 0, hi |-> 0, max |-> 0,
         idx |-> << >>]

(* --------------------------------------------------------------- engine *)

\* A seeding that sets the seed but goes on from the current position.
SeedEngineKeepsPos(g, seed) == [seed |-> ToUint32(seed), pos |-> g.pos]

\* randGen.seed((uint32_t) seed): the engine restarts the stream of that seed.
SeedEngine(g, seed) == [seed |-> ToUint32(seed), pos |-> 0]

\* Draws made on a copy of the engine: the shared one does not move.
AdvanceCopy(g, n) == g

\* The engine after n more draws.
Advance(g, n) == [g EXCEPT !.pos = @ + n]

\* us can be the next Len(us) values of the engine g: where the stream is known
\* already, the engine repeats it.
CanDraw(g, us) ==
  \A i \in 1 .. Len(us) :
    g.pos + i <= Len(stream[g.seed]) => us[i] = stream[g.seed][g.pos + i]

\* The stream after the engine g returned us.
Drawn(g, us) ==
  LET old == stream[g.seed]
      n == IF g.pos + Len(us) > Len(old) THEN g.pos + Len(us) ELSE Len(old)
  IN [stream EXCEPT ![g.seed] =
        [i \in 1 .. n |-> IF i <= Len(old) THEN old[i] ELSE us[i - g.pos]]]

\* The sequences of n values of the uniform distribution.
UnitSeqs(n) == [1 .. n -> Units]

(* ------------------------------------------------------- pure functions *)

\* (int) std::floor((double) hiExclusive * randUniformDist(randGen)), for the
\* value u / UnitDen of the distribution.
RandIntValue(hiExclusive, u) == (hiExclusive * u) \div UnitDen

\* hiExclusive - loInclusive in size_t.
SamplesRangeSize(loInclusive, hiExclusive) == ToSizeT(hiExclusive - loInclusive)

\* The comparison with >= for >: a range of exactly maxNumSamples draws.
IsSparseOrEqual(samplesRangeSize, maxNumSamples) == samplesRangeSize >= maxNumSamples

\* samplesRangeSize > maxNumSamples: the branch that draws.
IsSparse(samplesRangeSize, maxNumSamples) == samplesRangeSize > maxNumSamples

\* (size_t) math::RandInt(samplesRangeSize): the size_t argument is narrowed to
\* RandInt's int parameter, and the int result is converted back.
SampleIndex(samplesRangeSize, u) ==
  ToSizeT(RandIntValue(ToInt(samplesRangeSize), u))

\* The indices the loop draws from the values us.
SampleIndices(samplesRangeSize, us) ==
  [i \in 1 .. Len(us) |-> SampleIndex(samplesRangeSize, us[i])]

\* samples filled with ones for zeros before the increments.
CountersFromOne(samplesRangeSize, idx) ==
  [j \in 0 .. (samplesRangeSize - 1) |->
     1 + Cardinality({i \in 1 .. Len(idx) : idx[i] = j})]

\* The increment of the first draw is lost.
CountersButFirst(samplesRangeSize, idx) ==
  [j \in 0 .. (samplesRangeSize - 1) |->
     Cardinality({i \in 2 .. Len(idx) : idx[i] = j})]

\* samples after zeros(samplesRangeSize) and one increment per index; an index
\* outside the array leaves it as it is.
Counters(samplesRangeSize, idx) ==
  [j \in 0 .. (samplesRangeSize - 1) |->
     Cardinality({i \in 1 .. Len(idx) : idx[i] = j})]

\* The positions j in from .. (n - 1) with samples[j] > 0, ascending.
RECURSIVE FindFrom(_, _, _)
FindFrom(samples, from, n) ==
  IF from >= n THEN << >>
  ELSE IF samples[from] > 0
       THEN <<from>> \o FindFrom(samples, from + 1, n)
       ELSE FindFrom(samples, from + 1, n)

\* The positions with samples[j] > 1 for samples[j] > 0.
RECURSIVE FindAboveOneFrom(_, _, _)
FindAboveOneFrom(samples, from, n) ==
  IF from >= n THEN << >>
  ELSE IF samples[from] > 1
       THEN <<from>> \o FindAboveOneFrom(samples, from + 1, n)
       ELSE FindAboveOneFrom(samples, from + 1, n)

FindAboveOne(samples, n) == FindAboveOneFrom(samples, 0, n)

\* arma::find(samples > 0).
Find(samples, n) == FindFrom(samples, 0, n)

\* The shift by loInclusive left out.
AddLoNever(v, loInclusive) == v

\* distinctSamples += loInclusive, when loInclusive > 0.
AddLo(v, loInclusive) ==
  IF loInclusive > 0
  THEN [i \in 1 .. Len(v) |-> ToSizeT(v[i] + loInclusive)]
  ELSE v

\* The drawn indices themselves, in the order of the draws, for the positions found.
SparseSamplesInDrawOrder(loInclusive, samplesRangeSize, idx) ==
  [i \in 1 .. Len(idx) |-> ToSizeT(idx[i] + loInclusive)]

\* The vector the sparse branch leaves.
SparseSamples(loInclusive, samplesRangeSize, idx) ==
  AddLo(Find(Counters(samplesRangeSize, idx), samplesRangeSize), loInclusive)

\* The vector the dense branch leaves: set_size, then loInclusive + i.
DenseSamples(loInclusive, samplesRangeSize) ==
  [i \in 1 .. samplesRangeSize |-> ToSizeT(loInclusive + (i - 1))]

\* The loop running to i <= maxNumSamples: one draw more.
NumDrawsOneMore(samplesRangeSize, maxNumSamples) ==
  IF samplesRangeSize > maxNumSamples THEN maxNumSamples + 1 ELSE 0

\* The number of draws the loop of the sparse branch makes.
NumDraws(samplesRangeSize, maxNumSamples) ==
  IF IsSparse(samplesRangeSize, maxNumSamples) THEN maxNumSamples ELSE 0

\* The first draw whose index is outside samples, or 0 when all are inside.
FirstOutside(samplesRangeSize, idx) ==
  LET bad == {i \in 1 .. Len(idx) : idx[i] >= samplesRangeSize}
  IN IF bad = {} THEN 0 ELSE CHOOSE i \in bad : \A k \in bad : i <= k

\* What an increment of samples[idx[i]] can do to the run: with every index
\* inside the array the call goes on (FALSE); a write outside the array is
\* undefined, and either stops the program (TRUE) or lands in other memory.
Outcomes(samplesRangeSize, idx) ==
  IF FirstOutside(samplesRangeSize, idx) = 0 THEN {FALSE} ELSE BOOLEAN

(* ----------------------------------------------------------- operations *)

Init ==
  /\ bindingType \in BindingTypes
  /\ randGen = SeedEngine([seed |-> 0, pos |-> 0], DefaultSeed)
  /\ stream = [s \in EngineSeeds |-> << >>]
  /\ distinctSamples \in InitialVectors
  /\ last = NoOp
  /\ ref = NoRun
  /\ pc = "running"

\* RandomSeed(seed): seeds the engine, except in the build of the binding tests.
RandomSeed(seed) ==
  /\ pc = "running"
  /\ randGen' = IF bindingType # "test" THEN SeedEngine(randGen, seed) ELSE randGen
  /\ last' = [NoOp EXCEPT !.op = "RandomSeed", !.seed = seed]
  /\ UNCHANGED <<bindingType, stream, distinctSamples, ref, pc>>

\* CustomRandomSeed(seed): compiled when BINDING_TYPE == BINDING_TYPE_TEST holds
\* for the preprocessor, which it also does when neither name is defined.
CustomRandomSeed(seed) ==
  /\ pc = "running"
  /\ bindingType # "other"
  /\ randGen' = SeedEngine(randGen, seed)
  /\ last' = [NoOp EXCEPT !.op = "CustomRandomSeed", !.seed = seed]
  /\ UNCHANGED <<bindingType, stream, distinctSamples, ref, pc>>

\* RandInt(hiExclusive): one draw, scaled and floored.
RandInt(hiExclusive) ==
  /\ pc = "running"
  /\ randGen.pos < MaxPos
  /\ \E us \in UnitSeqs(1) :
       /\ CanDraw(randGen, us)
       /\ stream' = Drawn(randGen, us)
  /\ randGen' = Advance(randGen, 1)
  /\ last' = [NoOp EXCEPT !.op = "RandInt"]
  /\ UNCHANGED <<bindingType, distinctSamples, ref, pc>>

\* The run kept in r was seeded by RandomSeed(seed) and made the same call.
SameRun(r, seed, loInclusive, hiExclusive, maxNumSamples) ==
  /\ r.seed # NoSeed
  /\ r.seed = seed
  /\ r.lo = loInclusive
  /\ r.hi = hiExclusive
  /\ r.max = maxNumSamples

\* ObtainDistinctSamples(loInclusive, hiExclusive, maxNumSamples, distinctSamples).
\* An increment of samples outside the array is undefined: the write either
\* stops the program there or lands in other memory and the call goes on.
\* keep tells whether a run made right after RandomSeed is kept in ref; a later
\* run made after the same RandomSeed with the same arguments marks ref.
ObtainDistinctSamples(loInclusive, hiExclusive, maxNumSamples, keep) ==
  LET samplesRangeSize == SamplesRangeSize(loInclusive, hiExclusive)
      n == NumDraws(samplesRangeSize, maxNumSamples)
      after == IF last.op = "RandomSeed" THEN last.seed ELSE NoSeed
  IN
  /\ pc = "running"
  /\ randGen.pos + n <= MaxPos
  /\ \E us \in UnitSeqs(n) :
     \E stop \in Outcomes(samplesRangeSize, SampleIndices(samplesRangeSize, us)) :
       LET idx == SampleIndices(samplesRangeSize, us)
           bad == FirstOutside(samplesRangeSize, idx)
           crash == stop
           made == IF crash THEN SubSeq(us, 1, bad) ELSE us
           out == IF crash THEN distinctSamples
                  ELSE IF IsSparse(samplesRangeSize, maxNumSamples)
                       THEN SparseSamples(loInclusive, samplesRangeSize, idx)
                       ELSE DenseSamples(loInclusive, samplesRangeSize)
       IN
       /\ CanDraw(randGen, made)
       /\ stream' = Drawn(randGen, made)
       /\ randGen' = Advance(randGen, Len(made))
       /\ distinctSamples' = out
       /\ pc' = IF crash THEN "crashed" ELSE "running"
       /\ last' = [op |-> "ObtainDistinctSamples", seed |-> NoSeed,
                   lo |-> loInclusive, hi |-> hiExclusive, max |-> maxNumSamples,
                   idx |-> SubSeq(idx, 1, Len(made))]
       /\ ref' = IF after = NoSeed \/ crash THEN ref
                 ELSE IF keep
                      THEN [seed |-> after, lo |-> loInclusive, hi |-> hiExclusive,
                            max |-> maxNumSamples, out |-> out, again |-> FALSE]
                      ELSE IF SameRun(ref, after, loInclusive, hiExclusive,
                                      maxNumSamples)
                           THEN [ref EXCEPT !.again = TRUE]
                           ELSE ref
  /\ UNCHANGED bindingType

\* The calls of the sampler under Spec: hiExclusive >= loInclusive, within MaxHi,
\* from 0 (nothing is added to the indices found) and from 1.
Ranges == {r \in (0 .. 1) \X (0 .. MaxHi) : r[1] <= r[2]}

\* The calls under SpecWide: range sizes on both sides of the largest int.
WideRanges == {r \in (0 .. 1) \X ((IntMax - 1) .. (IntMax + 3)) : TRUE}

\* The calls under SpecSeed: the largest range above 1, with every number of
\* draws the engine is followed for.
SeedRanges == {<<1, MaxHi + 1>>}

Seed == \E seed \in Seeds : RandomSeed(seed)
CustomSeed == \E seed \in Seeds : CustomRandomSeed(seed)
DrawInt == \E hiExclusive \in {MaxHi} : RandInt(hiExclusive)
Sample ==
  \E r \in Ranges, maxNumSamples \in 0 .. MaxSamples :
    ObtainDistinctSamples(r[1], r[2], maxNumSamples, FALSE)
SampleKeep ==
  \E r \in SeedRanges, maxNumSamples \in 1 .. MaxPos, keep \in BOOLEAN :
    ObtainDistinctSamples(r[1], r[2], maxNumSamples, keep)
SampleWide ==
  \E r \in WideRanges, maxNumSamples \in 1 .. 2 :
    ObtainDistinctSamples(r[1], r[2], maxNumSamples, FALSE)

Next == Seed \/ CustomSeed \/ DrawInt \/ Sample
Spec == Init /\ [][Next]_vars

NextSeed == Seed \/ CustomSeed \/ DrawInt \/ SampleKeep
SpecSeed == Init /\ [][NextSeed]_vars

NextWide == Seed \/ CustomSeed \/ DrawInt \/ SampleWide
SpecWide == Init /\ [][NextWide]_vars

(* --------------------------------------------------------------- claims *)

\* The last operation was a call of ObtainDistinctSamples that returned.
Sampled == last.op = "ObtainDistinctSamples" /\ pc = "running"

\* hiExclusive - loInclusive of the last call (hiExclusive >= loInclusive).
RangeOf == last.hi - last.lo

SparseCall == Sampled /\ RangeOf > last.max
DenseCall == Sampled /\ RangeOf <= last.max

Min(a, b) == IF a <= b THEN a ELSE b

\* C1: after every call with hiExclusive >= loInclusive, whatever the draws
\* were, every value of the output vector v has loInclusive <= v < hiExclusive.
SamplesWithinRange ==
  Sampled =>
    \A i \in 1 .. Len(distinctSamples) :
      last.lo <= distinctSamples[i] /\ distinctSamples[i] < last.hi

\* A sparse call from a lower end above 0 returned the largest value of its range.
SampledTopOfShiftedRange ==
  SparseCall /\ last.lo > 0 /\ distinctSamples = <<last.hi - 1>>

\* C2: in both branches and for every outcome of the draws the output vector is
\* strictly increasing, so no value appears twice.
StrictlyIncreasing ==
  Sampled =>
    \A i \in 1 .. (Len(distinctSamples) - 1) :
      distinctSamples[i] < distinctSamples[i + 1]

\* A sparse call whose second draw was below its first returned two values.
SampledTwoFromDescendingDraws ==
  /\ SparseCall
  /\ Len(last.idx) = 2
  /\ last.idx[2] < last.idx[1]
  /\ Len(distinctSamples) = 2

\* C3: the number of values returned is at most
\* min(maxNumSamples, hiExclusive - loInclusive), in both branches.
AtMostMinOfBudgetAndRange ==
  Sampled => Len(distinctSamples) <= Min(last.max, RangeOf)

\* A sparse call with a budget of 2 returned exactly 2 values.
SampledFullBudget ==
  SparseCall /\ last.max = 2 /\ Len(distinctSamples) = last.max

\* C4: whenever hiExclusive - loInclusive <= maxNumSamples, equality included,
\* the output vector is exactly loInclusive, loInclusive + 1, ..., hiExclusive - 1,
\* whatever the engine and the vector held before.
DenseIsWholeRange ==
  DenseCall =>
    /\ Len(distinctSamples) = RangeOf
    /\ \A i \in 1 .. Len(distinctSamples) : distinctSamples[i] = last.lo + (i - 1)

\* A call with a range of exactly maxNumSamples >= 2 values, after the engine
\* had been drawn from.
SampledRangeOfExactlyBudget ==
  DenseCall /\ RangeOf = last.max /\ last.max >= 2 /\ randGen.pos > 0

\* C5: with maxNumSamples = 0 and hiExclusive > loInclusive, and with
\* hiExclusive = loInclusive for every maxNumSamples, the output vector is
\* empty after the call: what it held before is gone.
EmptyBudgetOrRangeGivesEmpty ==
  (Sampled /\ ((last.max = 0 /\ last.hi > last.lo) \/ last.hi = last.lo))
    => distinctSamples = << >>

\* A call with maxNumSamples = 0 on a range of two values or more.
SampledWithEmptyBudget ==
  Sampled /\ last.max = 0 /\ last.hi > last.lo + 1 /\ distinctSamples = << >>

DrawnValues == {last.lo + last.idx[i] : i \in 1 .. Len(last.idx)}

\* Two draws of the last call gave the same offset.
DrawsCoincide ==
  \E i, j \in 1 .. Len(last.idx) : i < j /\ last.idx[i] = last.idx[j]

CallAdvancesEngineByBudget ==
  [][last'.op = "ObtainDistinctSamples" =>
       randGen' = [randGen EXCEPT
                     !.pos = @ + (IF last'.hi - last'.lo > last'.max
                                  THEN last'.max ELSE 0)]]_vars

\* A sparse call that drew twice from the engine at its start.
SampledTwoDrawsFromStart ==
  SparseCall /\ last.max = 2 /\ randGen.pos = 2

\* The step is a call made right after RandomSeed(ref.seed) with the arguments
\* of the run kept in ref.
RepeatsKeptRun ==
  /\ last.op = "RandomSeed"
  /\ last'.op = "ObtainDistinctSamples"
  /\ SameRun(ref, last.seed, last'.lo, last'.hi, last'.max)

\* C7 as stated: a call made right after RandomSeed(s) returns what an earlier
\* call with the same arguments made right after RandomSeed(s) returned, whatever
\* came before the seeding.
SeededRunRepeats ==
  [][RepeatsKeptRun => distinctSamples' = ref.out]_vars

\* C7 amended: the same, in the builds where RandomSeed seeds the engine
\* (BINDING_TYPE is not BINDING_TYPE_TEST).
SeededRunRepeatsWhereSeeded ==
  [][(bindingType # "test" /\ RepeatsKeptRun) => distinctSamples' = ref.out]_vars

\* A run that drew was kept and repeated, in a build where RandomSeed seeds, with
\* draws made between the two.
RepeatedSeededRun ==
  /\ bindingType # "test"
  /\ ref.again
  /\ ref.max >= 1
  /\ last.op = "ObtainDistinctSamples"
  /\ Len(stream[randGen.seed]) > ref.max

\* C10: every index the sparse branch draws lies in [0, samplesRangeSize), for
\* every range size above maxNumSamples, those beyond the largest int included.
IndexWithinSamples ==
  last.op = "ObtainDistinctSamples" =>
    \A i \in 1 .. Len(last.idx) :
      0 <= last.idx[i] /\ last.idx[i] < SamplesRangeSize(last.lo, last.hi)

====
